---------------------------- MODULE Spec2Model ----------------------------
(***************************************************************************)
(* A model of scannrs: the interactive front end (commands/tui), which     *)
(* splits an Interaction Loop thread from the hardware dispatch loop       *)
(* running on the calling thread, and the batch commands (scan, options)   *)
(* behind the command line.                                                *)
(*                                                                         *)
(* Optional values (Rust Option<T>) are sequences of length 0 or 1:        *)
(* <<>> is None and <<x>> is Some(x).  Text (tokens, keys, values) is a    *)
(* sequence of one-character strings.                                      *)
(***************************************************************************)
EXTENDS Integers, Sequences, FiniteSets, TLC

\* ------------------------------------------------------------------ bounds

\* The longest device list the scanner-capability-source enumerates.
MaxDevices == 2

\* The most --options tokens on a command line.
MaxOpts == 2

\* The longest Raw Sample Buffer the device delivers.
MaxBuf == 7

\* The furthest the picker's cursor is followed past the start of the list: a
\* Down press that would take it beyond is not explored.
MaxCursor == 3

\* usize::MAX, the cursor ListState::select_previous starts from when nothing
\* is selected; narrowed to the widest integer the checker represents (the
\* model never adds to it without saturating).
UsizeMax == 2147483647

\* --------------------------------------------------------------- variables

VARIABLES
    \* --- tui(): the calling thread
    mainPc,            \* position of tui() (commands/tui/mod.rs 36-57)
    tui_ret,           \* what tui() gave its caller: "none" until it ends
    raw_mode,          \* terminal raw mode is enabled
    bracketed_paste,   \* bracketed paste is enabled
    \* --- the request channel (sane_sender, sane_recv)
    senders,           \* number of live Sender<SaneQuery> handles
    sane_recv,         \* the Receiver<SaneQuery> is alive
    queue,             \* requests sent and not yet received
    \* --- the one-shot response channel of the ListDevices request
    resp,              \* [sender, receiver: "none" | "alive" | "dropped", msg: Option]
    \* --- sane_handler
    handler,           \* "NotStarted" | "Idle" | "Servicing" | "Done"
    sane_handler_res,  \* "none" | "ok" | "err_get_devices"
    sane_devices,      \* the devices the capability source enumerates
    \* --- the Interaction Loop thread (Tui::run)
    uiPc,              \* position of Tui::run
    run_res,           \* thread result: "none" | "ok" | "err_..." | "panic"
    \* --- App / DevicePicker state
    active_device,     \* AppConfig.active_device: Option<String>
    available_devices, \* DevicePicker.available_devices: Option<Vec<Device>>
    list_state,        \* DevicePicker.list_state.selected: Option<usize>
    last_action,       \* the Action the main loop saw last: Option<Action>
    last_event         \* the event the last poll read: None if it read none

tuiVars == <<mainPc, tui_ret, raw_mode, bracketed_paste, senders, sane_recv,
             queue, resp, handler, sane_handler_res, sane_devices, uiPc,
             run_res, active_device, available_devices, list_state,
             last_action, last_event>>

VARIABLES
    \* --- main(): the batch commands
    pc,            \* position of main / scan / options
    result,        \* how the process ended: "none" until it ends
    err,           \* the fields of the error it ended with: Option
    argv,          \* the command line: [command, name, tokens, sub, option]
    args_options,  \* Command::Scan.options as parsed: Vec<(key, value)>
    options,       \* scan's HashMap of options: a set of <<key, value>>
    sane_init,     \* the scanner-capability-source has been initialised
    enumerations,  \* number of get_devices calls made
    devices,       \* the Vec<Device> get_devices returned, until consumed
    open_calls,    \* indices (from 1) of the descriptors open() was called on
    file_opened,   \* the destination was created / truncated
    dev_options,   \* the device options get_options returned, not yet visited
    set_calls,     \* set_option calls made: <<name, value>>
    get_calls,     \* get_option calls made: names
    device_values, \* the device's option values: name -> value
    params,        \* Option: the Parameters start_scan returned
    data_len,      \* Option: length of the Vec read_to_vec returned
    img,           \* Option: the reconstructed image [width, height, channels]
    encoded        \* the encoder wrote the image to the destination

cliVars == <<pc, result, err, argv, args_options, options, sane_init,
             enumerations, devices, open_calls, file_opened, dev_options,
             set_calls, get_calls, device_values, params, data_len, img,
             encoded>>

vars == <<tuiVars, cliVars>>

\* ------------------------------------------------------------ small values

None == <<>>
Some(x) == <<x>>
IsSome(o) == Len(o) = 1
Unwrap(o) == o[1]

\* Device names the capability source may report.  "d\xFF" stands for a name
\* that is not valid UTF-8.
DeviceNames == {"d1", "d2", "d\\xFF"}

\* String::from_utf8_lossy on a device name: an invalid byte becomes U+FFFD.
ToStringLossy(name) == IF name = "d\\xFF" THEN "d\\uFFFD" ELSE name

SeqsUpTo(S, n) == UNION {[1..k -> S] : k \in 0..n}

DeviceLists == SeqsUpTo(DeviceNames, MaxDevices)

NoResp == [sender |-> "none", receiver |-> "none", msg |-> None]

\* ---------------------------------------------------------------- channels

\* Sender::send on a std::sync::mpsc channel: fails once the receiver is gone.
SendOk(receiverAlive) == receiverAlive

\* Faulty variant: a receive that never notices that the senders are gone.
RecvOutcomeNoHangup(hasMsg, noSenders) == IF hasMsg THEN "msg" ELSE "block"

\* Faulty variant: a receive that gives up as soon as nothing is queued
\* (try_recv in place of recv).
RecvOutcomeNonBlocking(hasMsg, noSenders) ==
    IF hasMsg THEN "msg" ELSE "disconnected"

\* Receiver::recv / Receiver::iter().next(): a queued message is delivered
\* first; with none queued the call fails (iter ends) once every sender has
\* been dropped, and blocks otherwise.
RecvOutcome(hasMsg, noSenders) ==
    IF hasMsg THEN "msg"
    ELSE IF noSenders THEN "disconnected"
    ELSE "block"

\* Faulty variant: the original Sender outlives App::new.
AppNewSendersLeak(n) == n + 1

\* App::new: the Sender passed in is cloned into the DevicePicker, and the
\* original is dropped when App::new returns.
AppNewSenders(n) == (n + 1) - 1

\* Result::or: the first result if it is Ok, otherwise the second.
ResultOr(a, b) == IF a = "ok" THEN a ELSE b

\* ----------------------------------------------------- ListState / picker

\* ListState::select_next: None -> 0, Some(i) -> i saturating_add 1.
SelectNext(sel) ==
    IF ~IsSome(sel) THEN Some(0)
    ELSE IF Unwrap(sel) = UsizeMax THEN sel
    ELSE Some(Unwrap(sel) + 1)

\* ListState::select_previous: None -> usize::MAX, Some(i) -> i saturating_sub 1.
SelectPrevious(sel) ==
    IF ~IsSome(sel) THEN Some(UsizeMax)
    ELSE IF Unwrap(sel) = 0 THEN sel
    ELSE Some(Unwrap(sel) - 1)

\* Rendering the stateful List (device_picker.rs 98): nothing is rendered, and
\* the state is left alone, when the area for the list is empty; otherwise an
\* empty list clears the selection, and a selection past the end is moved to
\* the last item.
RenderList(sel, n, areaEmpty) ==
    IF areaEmpty THEN sel
    ELSE IF n = 0 THEN None
    ELSE IF IsSome(sel) /\ Unwrap(sel) >= n THEN Some(n - 1)
    ELSE sel

\* DevicePicker::draw: nothing is drawn before the device list is known.
PickerDraw(avail, sel, areaEmpty) ==
    IF ~IsSome(avail) THEN sel
    ELSE RenderList(sel, Len(Unwrap(avail)), areaEmpty)

\* App::draw: the picker is drawn only while no device is active.
AppDraw(active, avail, sel, areaEmpty) ==
    IF ~IsSome(active) THEN PickerDraw(avail, sel, areaEmpty) ELSE sel

Events == {"EscPress", "EscRelease", "Up", "Down", "Enter", "OtherKey",
           "Resize", "Other"}

Quit == [tag |-> "Quit", device |-> ""]
Noop == [tag |-> "Noop", device |-> ""]
SetActiveDevice(d) == [tag |-> "SetActiveDevice", device |-> d]

\* Faulty variant: Enter takes the first device whatever the cursor says.
PickerHandleEventFirst(avail, sel, ev) ==
    CASE ev = "Up" -> [list_state |-> SelectPrevious(sel), action |-> Noop]
      [] ev = "Down" -> [list_state |-> SelectNext(sel), action |-> Noop]
      [] ev = "Enter" ->
            IF IsSome(avail) /\ IsSome(sel) /\ Unwrap(avail) # <<>>
            THEN [list_state |-> sel,
                  action |-> SetActiveDevice(ToStringLossy(Unwrap(avail)[1]))]
            ELSE [list_state |-> sel, action |-> Noop]
      [] OTHER -> [list_state |-> sel, action |-> Noop]

\* DevicePicker::handle_event: the new cursor and the Action.
PickerHandleEvent(avail, sel, ev) ==
    CASE ev = "Up" -> [list_state |-> SelectPrevious(sel), action |-> Noop]
      [] ev = "Down" -> [list_state |-> SelectNext(sel), action |-> Noop]
      [] ev = "Enter" ->
            IF IsSome(avail) /\ IsSome(sel)
               /\ Unwrap(sel) < Len(Unwrap(avail))
            THEN [list_state |-> sel,
                  action |-> SetActiveDevice(
                      ToStringLossy(Unwrap(avail)[Unwrap(sel) + 1]))]
            ELSE [list_state |-> sel, action |-> Noop]
      [] OTHER -> [list_state |-> sel, action |-> Noop]

\* App::handle_action: SetActiveDevice is consumed, anything else passed on.
HandleAction(active, action) ==
    IF action.tag = "SetActiveDevice"
    THEN [active_device |-> Some(action.device), action |-> None]
    ELSE [active_device |-> active, action |-> Some(action)]

\* Faulty variant: events reach the picker whether or not a device is active.
AppHandleEventAlwaysDelegate(active, avail, sel, ev) ==
    IF ev = "EscPress"
    THEN [active_device |-> active, list_state |-> sel, action |-> Quit]
    ELSE LET p == PickerHandleEvent(avail, sel, ev)
             h == HandleAction(active, p.action)
         IN [active_device |-> h.active_device,
             list_state |-> p.list_state,
             action |-> IF IsSome(h.action) THEN Unwrap(h.action) ELSE Noop]

\* Faulty variant: the quit key is looked at only once a device is active;
\* before that every event goes to the picker.
AppHandleEventEscAfterDelegate(active, avail, sel, ev) ==
    IF ~IsSome(active)
    THEN LET p == PickerHandleEvent(avail, sel, ev)
             h == HandleAction(active, p.action)
         IN [active_device |-> h.active_device,
             list_state |-> p.list_state,
             action |-> IF IsSome(h.action) THEN Unwrap(h.action) ELSE Noop]
    ELSE IF ev = "EscPress"
    THEN [active_device |-> active, list_state |-> sel, action |-> Quit]
    ELSE [active_device |-> active, list_state |-> sel, action |-> Noop]

\* App::handle_event.
AppHandleEvent(active, avail, sel, ev) ==
    IF ev = "EscPress"
    THEN [active_device |-> active, list_state |-> sel, action |-> Quit]
    ELSE IF ~IsSome(active)
    THEN LET p == PickerHandleEvent(avail, sel, ev)
             h == HandleAction(active, p.action)
         IN [active_device |-> h.active_device,
             list_state |-> p.list_state,
             action |-> IF IsSome(h.action) THEN Unwrap(h.action) ELSE Noop]
    ELSE [active_device |-> active, list_state |-> sel, action |-> Noop]

\* The match in Tui::run on the event read: keys and resizes go to the
\* Application, every other event is a Noop.
RunDispatchEvent(active, avail, sel, ev) ==
    IF ev = "Other"
    THEN [active_device |-> active, list_state |-> sel, action |-> Noop]
    ELSE AppHandleEvent(active, avail, sel, ev)

\* ------------------------------------------------------------------- text

IsSpace(c) == c = " "

RECURSIVE TrimStart(_)
TrimStart(t) ==
    IF t # <<>> /\ IsSpace(Head(t)) THEN TrimStart(Tail(t)) ELSE t

RECURSIVE TrimEnd(_)
TrimEnd(t) ==
    IF t # <<>> /\ IsSpace(t[Len(t)])
    THEN TrimEnd(SubSeq(t, 1, Len(t) - 1))
    ELSE t

\* str::trim
Trim(t) == TrimEnd(TrimStart(t))

\* Index of the first occurrence of character c in t, 0 if there is none.
FirstIndex(t, c) ==
    IF \E i \in 1..Len(t) : t[i] = c
    THEN CHOOSE i \in 1..Len(t) :
            t[i] = c /\ \A j \in 1..(i - 1) : t[j] # c
    ELSE 0

\* The token split at index i of an '=' into trimmed halves; None for i = 0.
SplitAt(t, i) ==
    IF i = 0 THEN None
    ELSE Some(<<Trim(SubSeq(t, 1, i - 1)), Trim(SubSeq(t, i + 1, Len(t)))>>)

\* Faulty variant: a token with no '=' is taken as a key with an empty value.
split_options_lenient(opt) ==
    IF FirstIndex(opt, "=") = 0
    THEN Some(<<Trim(opt), <<>> >>)
    ELSE SplitAt(opt, FirstIndex(opt, "="))

\* cli.rs 43-48 split_options: split_once('='), both halves trimmed; a token
\* with no '=' is InvalidOption (None here).
split_options(opt) == SplitAt(opt, FirstIndex(opt, "="))

Digits == {"0", "1", "2", "3", "4", "5", "6", "7", "8", "9"}

DigitValue(c) ==
    CASE c = "0" -> 0 [] c = "1" -> 1 [] c = "2" -> 2 [] c = "3" -> 3
      [] c = "4" -> 4 [] c = "5" -> 5 [] c = "6" -> 6 [] c = "7" -> 7
      [] c = "8" -> 8 [] c = "9" -> 9

RECURSIVE DecimalValue(_)
DecimalValue(t) ==
    IF t = <<>> THEN 0
    ELSE 10 * DecimalValue(SubSeq(t, 1, Len(t) - 1)) + DigitValue(t[Len(t)])

\* str::parse::<i32>: an optional sign and at least one digit, nothing else.
ParseInt(t) ==
    LET body == IF t # <<>> /\ Head(t) \in {"+", "-"} THEN Tail(t) ELSE t
    IN IF body # <<>> /\ \A i \in 1..Len(body) : body[i] \in Digits
       THEN Some(IF t[1] = "-" THEN 0 - DecimalValue(body)
                 ELSE DecimalValue(body))
       ELSE None

\* CString::new: fails on an interior NUL byte.
CStringNew(t) == IF \E i \in 1..Len(t) : t[i] = "NUL" THEN None ELSE Some(t)

IntValue(n) == [kind |-> "Int", int |-> n, text |-> <<>>]
StringValue(t) == [kind |-> "String", int |-> 0, text |-> t]

\* Faulty variant: text that does not parse as an integer is set as 0, and
\* the text up to an embedded NUL is set as the string.
ConvertValueLenient(kind, val) ==
    CASE kind = "Int" ->
            IF IsSome(ParseInt(val))
            THEN [tag |-> "set", value |-> IntValue(Unwrap(ParseInt(val))),
                  error |-> ""]
            ELSE [tag |-> "set", value |-> IntValue(0), error |-> ""]
      [] kind = "String" ->
            IF IsSome(CStringNew(val))
            THEN [tag |-> "set", value |-> StringValue(val), error |-> ""]
            ELSE [tag |-> "set", value |-> StringValue(<<>>), error |-> ""]
      [] OTHER -> [tag |-> "skip", value |-> IntValue(0), error |-> ""]

\* scan.rs 41-53: the DeviceOptionValue for a matching option, by its kind.
\* "skip" for kinds that are not set; "invalid" when the text does not
\* convert, with the error the conversion gives (through into_diagnostic):
\* the ParseIntError of str::parse or the NulError of CString::new.
ConvertValue(kind, val) ==
    CASE kind = "Int" ->
            IF IsSome(ParseInt(val))
            THEN [tag |-> "set", value |-> IntValue(Unwrap(ParseInt(val))),
                  error |-> ""]
            ELSE [tag |-> "invalid", value |-> IntValue(0),
                  error |-> "ParseIntError"]
      [] kind = "String" ->
            IF IsSome(CStringNew(val))
            THEN [tag |-> "set", value |-> StringValue(val), error |-> ""]
            ELSE [tag |-> "invalid", value |-> IntValue(0),
                  error |-> "NulError"]
      [] OTHER -> [tag |-> "skip", value |-> IntValue(0), error |-> ""]

\* ------------------------------------------------------------ the HashMap

MapKeys(m) == {p[1] : p \in m}

\* Faulty variant: a key that is not in the map gets the value of some entry.
MapGetOrAny(m, k) ==
    IF k \in MapKeys(m) THEN Some((CHOOSE p \in m : p[1] = k)[2])
    ELSE IF m # {} THEN Some((CHOOSE p \in m : TRUE)[2])
    ELSE None

\* HashMap::get
MapGet(m, k) == IF k \in MapKeys(m)
                THEN Some((CHOOSE p \in m : p[1] = k)[2]) ELSE None
MapInsert(m, k, v) == {p \in m : p[1] # k} \cup {<<k, v>>}

\* Faulty variant: an earlier pair wins over a later one with the same key.
RECURSIVE CollectFirstWins(_)
CollectFirstWins(pairs) ==
    IF pairs = <<>> THEN {}
    ELSE LET rest == CollectFirstWins(Tail(pairs))
         IN MapInsert(rest, Head(pairs)[1], Head(pairs)[2])

\* Iterator::collect::<HashMap<_, _>>: the pairs are inserted in order, a
\* later pair replacing an earlier one with the same key.
RECURSIVE Collect(_)
Collect(pairs) ==
    IF pairs = <<>> THEN {}
    ELSE LET n == Len(pairs) IN
         MapInsert(Collect(SubSeq(pairs, 1, n - 1)), pairs[n][1], pairs[n][2])

\* ------------------------------------------------------- lookup and image

\* Faulty variant: the last matching descriptor instead of the first.
FindLastMatch(devs, name) ==
    IF \E i \in 1..Len(devs) : devs[i] = name
    THEN CHOOSE i \in 1..Len(devs) :
            devs[i] = name /\ \A j \in (i + 1)..Len(devs) : devs[j] # name
    ELSE 0

\* scan.rs 19-23 / options.rs 12-16: find_map over the descriptors stops at
\* the first whose name equals the target; 0 when none does.
FindFirstMatch(devs, name) ==
    IF \E i \in 1..Len(devs) : devs[i] = name
    THEN CHOOSE i \in 1..Len(devs) :
            devs[i] = name /\ \A j \in 1..(i - 1) : devs[j] # name
    ELSE 0

\* Faulty variant: falls back to the first option when none matches.
FindOptionOrFirst(opts, name) ==
    IF \E i \in 1..Len(opts) : opts[i].name = name
    THEN CHOOSE i \in 1..Len(opts) :
            opts[i].name = name /\ \A j \in 1..(i - 1) : opts[j].name # name
    ELSE IF opts # <<>> THEN 1 ELSE 0

\* options.rs 46-48: the first option whose name equals the one asked for.
FindOption(opts, name) ==
    IF \E i \in 1..Len(opts) : opts[i].name = name
    THEN CHOOSE i \in 1..Len(opts) :
            opts[i].name = name /\ \A j \in 1..(i - 1) : opts[j].name # name
    ELSE 0

\* Faulty variant: no frame format is left unimplemented.
UnimplementedNever(format) == FALSE

\* scan.rs 82-84: the Red, Green and Blue arms are todo!().
Unimplemented(format) == format \in {"Red", "Green", "Blue"}

\* Bytes per pixel of the buffer type built for a frame format:
\* GrayImage (Luma<u8>) or RgbImage (Rgb<u8>).
Channels(format) == IF format = "Gray" THEN 1 ELSE 3

\* ImageBuffer::from_raw: None when the container is not big enough for
\* width * height pixels; a larger container is accepted.
FromRaw(width, height, channels, len) == len >= width * height * channels

\* ------------------------------------------------------- inputs (batch)

\* The --options tokens tried: "a=1", " a = 2 ", "a" (no '='), "c=1=2" (a key
\* no device has) and "b=<NUL>" (a value with an embedded NUL byte).
Tokens == {
    <<"a", "=", "1">>,
    <<" ", "a", " ", "=", " ", "2", " ">>,
    <<"a">>,
    <<"c", "=", "1", "=", "2">>,
    <<"b", "=", "NUL">> }

\* Device names asked for on the command line.
TargetNames == {"d1", "d2"}

\* Names of the options a device may expose, and the names `show` asks for.
OptionNames == {<<"a">>, <<"b">>}
AskedOptionNames == {<<"a">>, <<"c">>}

\* sane_scan::ValueType, as far as the commands tell its cases apart.
ValueTypes == {"Int", "String", "Bool", "Group"}

\* The option lists a device may report: names are unique within a device.
OptionLists ==
    {l \in SeqsUpTo([name : OptionNames, type_ : ValueTypes],
                    Cardinality(OptionNames)) :
        \A i, j \in 1..Len(l) : i # j => l[i].name # l[j].name}

\* sane_scan::Frame
Frames == {"Gray", "Rgb", "Red", "Green", "Blue"}

\* The Parameters a device may report.
ParamSets == [format : Frames, pixels_per_line : {2}, lines : {1, 2},
              depth : {1, 8}]

ArgvSet ==
    [command : {"scan"}, name : TargetNames,
     tokens : SeqsUpTo(Tokens, MaxOpts), sub : {""}, option : {<<>>}]
    \cup
    [command : {"options"}, name : TargetNames, tokens : {<<>>},
     sub : {"list"}, option : {<<>>}]
    \cup
    [command : {"options"}, name : TargetNames, tokens : {<<>>},
     sub : {"show"}, option : AskedOptionNames]

DefaultValues == [n \in OptionNames |-> IntValue(0)]

\* The interactive-mode variables while a batch command runs, and the batch
\* variables while the interactive mode runs.
TuiIdle ==
    /\ mainPc = "idle"
    /\ tui_ret = "none"
    /\ raw_mode = FALSE
    /\ bracketed_paste = FALSE
    /\ senders = 0
    /\ sane_recv = FALSE
    /\ queue = <<>>
    /\ resp = NoResp
    /\ handler = "NotStarted"
    /\ sane_handler_res = "none"
    /\ sane_devices = <<>>
    /\ uiPc = "not_started"
    /\ run_res = "none"
    /\ active_device = None
    /\ available_devices = None
    /\ list_state = None
    /\ last_action = None
    /\ last_event = None

CliStart ==
    /\ pc = "parse"
    /\ result = "none"
    /\ err = None
    /\ args_options = <<>>
    /\ options = {}
    /\ sane_init = FALSE
    /\ enumerations = 0
    /\ devices = <<>>
    /\ open_calls = <<>>
    /\ file_opened = FALSE
    /\ dev_options = <<>>
    /\ set_calls = <<>>
    /\ get_calls = <<>>
    /\ device_values = DefaultValues
    /\ params = None
    /\ data_len = None
    /\ img = None
    /\ encoded = FALSE

CliIdle ==
    /\ CliStart
    /\ argv = [command |-> "tui", name |-> "", tokens |-> <<>>, sub |-> "",
               option |-> <<>>]

\* ===================================================== interactive mode

InitTui ==
    /\ mainPc = "new"
    /\ tui_ret = "none"
    /\ raw_mode = FALSE
    /\ bracketed_paste = FALSE
    /\ senders = 0
    /\ sane_recv = FALSE
    /\ queue = <<>>
    /\ resp = NoResp
    /\ handler = "NotStarted"
    /\ sane_handler_res = "none"
    /\ sane_devices \in DeviceLists
    /\ uiPc = "not_started"
    /\ run_res = "none"
    /\ active_device = None
    /\ available_devices = None
    /\ list_state = None
    /\ last_action = None
    /\ last_event = None
    /\ CliIdle

\* tui() returns early with an error: the locals it owns are dropped (the Tui
\* with its Sender, and the Receiver).
TuiReturnEarly(e) ==
    /\ mainPc' = "returned"
    /\ tui_ret' = e
    /\ senders' = 0
    /\ sane_recv' = FALSE

\* mod.rs 37-38: channel(), Tui::new (Terminal::new, then App::new).
TuiNew ==
    /\ mainPc = "new"
    /\ \E ok \in BOOLEAN :
        IF ok
        THEN /\ mainPc' = "enable_raw"
             /\ senders' = AppNewSenders(1)
             /\ sane_recv' = TRUE
             /\ UNCHANGED tui_ret
        ELSE TuiReturnEarly("err_terminal_new")
    /\ UNCHANGED <<raw_mode, bracketed_paste, queue, resp, handler,
                   sane_handler_res, sane_devices, uiPc, run_res,
                   active_device, available_devices, list_state, last_action,
                   last_event>>
    /\ UNCHANGED cliVars

\* mod.rs 39: enable_raw_mode()?
EnableRawMode ==
    /\ mainPc = "enable_raw"
    /\ \E ok \in BOOLEAN :
        IF ok
        THEN /\ raw_mode' = TRUE
             /\ mainPc' = "enable_paste"
             /\ UNCHANGED <<tui_ret, senders, sane_recv>>
        ELSE /\ TuiReturnEarly("err_enable_raw_mode")
             /\ UNCHANGED raw_mode
    /\ UNCHANGED <<bracketed_paste, queue, resp, handler, sane_handler_res,
                   sane_devices, uiPc, run_res, active_device,
                   available_devices, list_state, last_action,
                   last_event>>
    /\ UNCHANGED cliVars

\* mod.rs 40: execute!(stdout(), EnableBracketedPaste)?
EnableBracketedPaste ==
    /\ mainPc = "enable_paste"
    /\ \E ok \in BOOLEAN :
        IF ok
        THEN /\ bracketed_paste' = TRUE
             /\ mainPc' = "spawn"
             /\ UNCHANGED <<tui_ret, senders, sane_recv>>
        ELSE /\ TuiReturnEarly("err_enable_bracketed_paste")
             /\ UNCHANGED bracketed_paste
    /\ UNCHANGED <<raw_mode, queue, resp, handler, sane_handler_res,
                   sane_devices, uiPc, run_res, active_device,
                   available_devices, list_state, last_action,
                   last_event>>
    /\ UNCHANGED cliVars

\* mod.rs 42-44: spawn the Interaction Loop, then call sane_handler.
Spawn ==
    /\ mainPc = "spawn"
    /\ mainPc' = "sane_handler"
    /\ uiPc' = "init_send"
    /\ handler' = "Idle"
    /\ UNCHANGED <<tui_ret, raw_mode, bracketed_paste, senders, sane_recv,
                   queue, resp, sane_handler_res, sane_devices, run_res,
                   active_device, available_devices, list_state, last_action,
                   last_event>>
    /\ UNCHANGED cliVars

\* sane_handler returns: its Receiver is dropped with whatever is queued.
HandlerReturn(r) ==
    /\ handler' = "Done"
    /\ sane_handler_res' = r
    /\ sane_recv' = FALSE
    /\ mainPc' = "join"

\* mod.rs 60: for query in sane_recv.iter()
HandlerRecv ==
    /\ mainPc = "sane_handler"
    /\ handler = "Idle"
    /\ LET o == RecvOutcome(queue # <<>>, senders = 0) IN
        /\ o # "block"
        /\ IF o = "msg"
           THEN /\ handler' = "Servicing"
                /\ queue' = Tail(queue)
                /\ UNCHANGED <<sane_handler_res, sane_recv, mainPc>>
           ELSE /\ HandlerReturn("ok")
                /\ queue' = <<>>
    /\ UNCHANGED <<tui_ret, raw_mode, bracketed_paste, senders, resp,
                   sane_devices, uiPc, run_res, active_device,
                   available_devices, list_state, last_action,
                   last_event>>
    /\ UNCHANGED cliVars

\* mod.rs 62-68: get_devices()?, then resp.send(devices); the responder is
\* dropped at the end of the match arm, or with the query on an early return.
HandlerService ==
    /\ mainPc = "sane_handler"
    /\ handler = "Servicing"
    /\ \E ok \in BOOLEAN :
        IF ~ok
        THEN /\ HandlerReturn("err_get_devices")
             /\ queue' = <<>>
             /\ resp' = [resp EXCEPT !.sender = "dropped"]
        ELSE IF SendOk(resp.receiver = "alive")
        THEN /\ resp' = [resp EXCEPT !.msg = Some(sane_devices),
                                     !.sender = "dropped"]
             /\ handler' = "Idle"
             /\ UNCHANGED <<sane_handler_res, sane_recv, mainPc, queue>>
        ELSE /\ HandlerReturn("ok")
             /\ queue' = <<>>
             /\ resp' = [resp EXCEPT !.sender = "dropped"]
    /\ UNCHANGED <<tui_ret, raw_mode, bracketed_paste, senders, sane_devices,
                   uiPc, run_res, active_device, available_devices,
                   list_state, last_action,
                   last_event>>
    /\ UNCHANGED cliVars

\* mod.rs 46: tui_thread.join()
Join ==
    /\ mainPc = "join"
    /\ uiPc = "done"
    /\ mainPc' = "disable_paste"
    /\ UNCHANGED <<tui_ret, raw_mode, bracketed_paste, senders, sane_recv,
                   queue, resp, handler, sane_handler_res, sane_devices, uiPc,
                   run_res, active_device, available_devices, list_state,
                   last_action, last_event>>
    /\ UNCHANGED cliVars

\* mod.rs 48: execute!(stdout(), DisableBracketedPaste)?
DisableBracketedPaste ==
    /\ mainPc = "disable_paste"
    /\ \E ok \in BOOLEAN :
        IF ok
        THEN /\ bracketed_paste' = FALSE
             /\ mainPc' = "disable_raw"
             /\ UNCHANGED tui_ret
        ELSE /\ mainPc' = "returned"
             /\ tui_ret' = "err_disable_bracketed_paste"
             /\ UNCHANGED bracketed_paste
    /\ UNCHANGED <<raw_mode, senders, sane_recv, queue, resp, handler,
                   sane_handler_res, sane_devices, uiPc, run_res,
                   active_device, available_devices, list_state, last_action,
                   last_event>>
    /\ UNCHANGED cliVars

\* mod.rs 49: disable_raw_mode()?
DisableRawMode ==
    /\ mainPc = "disable_raw"
    /\ \E ok \in BOOLEAN :
        IF ok
        THEN /\ raw_mode' = FALSE
             /\ mainPc' = "match"
             /\ UNCHANGED tui_ret
        ELSE /\ mainPc' = "returned"
             /\ tui_ret' = "err_disable_raw_mode"
             /\ UNCHANGED raw_mode
    /\ UNCHANGED <<bracketed_paste, senders, sane_recv, queue, resp, handler,
                   sane_handler_res, sane_devices, uiPc, run_res,
                   active_device, available_devices, list_state, last_action,
                   last_event>>
    /\ UNCHANGED cliVars

\* mod.rs 51-56: the thread's result, or its panic resumed.
TuiResult(handlerRes, threadRes) ==
    IF threadRes = "panic" THEN "panic" ELSE ResultOr(handlerRes, threadRes)

MatchResult ==
    /\ mainPc = "match"
    /\ mainPc' = "returned"
    /\ tui_ret' = TuiResult(sane_handler_res, run_res)
    /\ UNCHANGED <<raw_mode, bracketed_paste, senders, sane_recv, queue, resp,
                   handler, sane_handler_res, sane_devices, uiPc, run_res,
                   active_device, available_devices, list_state, last_action,
                   last_event>>
    /\ UNCHANGED cliVars

\* ---------------------------------------------- the Interaction Loop thread

\* The thread's closure ends (return or unwinding): the Tui it owns is dropped,
\* and with it the DevicePicker's Sender.
ThreadEnd(r) ==
    /\ uiPc' = "done"
    /\ run_res' = r
    /\ senders' = senders - 1

\* device_picker.rs 37-40: channel(), sane_sender.send(ListDevices{responder})?
UiInitSend ==
    /\ uiPc = "init_send"
    /\ IF SendOk(sane_recv)
       THEN /\ queue' = Append(queue, "ListDevices")
            /\ resp' = [sender |-> "alive", receiver |-> "alive", msg |-> None]
            /\ uiPc' = "init_recv"
            /\ UNCHANGED <<run_res, senders>>
       ELSE /\ ThreadEnd("err_init_send")
            /\ resp' = [sender |-> "dropped", receiver |-> "dropped",
                        msg |-> None]
            /\ UNCHANGED queue
    /\ UNCHANGED <<mainPc, tui_ret, raw_mode, bracketed_paste, sane_recv,
                   handler, sane_handler_res, sane_devices, active_device,
                   available_devices, list_state, last_action,
                   last_event>>
    /\ UNCHANGED cliVars

\* Faulty variant: init leaves the first item highlighted.
UiInitRecvSelectFirst ==
    /\ uiPc = "init_recv"
    /\ LET o == RecvOutcome(IsSome(resp.msg), resp.sender = "dropped") IN
        /\ o # "block"
        /\ resp' = [resp EXCEPT !.receiver = "dropped", !.msg = None]
        /\ IF o = "msg"
           THEN /\ available_devices' = Some(Unwrap(resp.msg))
                /\ list_state' = Some(0)
                /\ uiPc' = "clear"
                /\ UNCHANGED <<run_res, senders>>
           ELSE /\ ThreadEnd("err_init_recv")
                /\ UNCHANGED <<available_devices, list_state>>
    /\ UNCHANGED <<mainPc, tui_ret, raw_mode, bracketed_paste, sane_recv,
                   queue, handler, sane_handler_res, sane_devices,
                   active_device, last_action,
                   last_event>>
    /\ UNCHANGED cliVars

\* device_picker.rs 42-46: available_devices = Some(recv.recv()?), then the
\* list state is reset.
UiInitRecv ==
    /\ uiPc = "init_recv"
    /\ LET o == RecvOutcome(IsSome(resp.msg), resp.sender = "dropped") IN
        /\ o # "block"
        /\ resp' = [resp EXCEPT !.receiver = "dropped", !.msg = None]
        /\ IF o = "msg"
           THEN /\ available_devices' = Some(Unwrap(resp.msg))
                /\ list_state' = None
                /\ uiPc' = "clear"
                /\ UNCHANGED <<run_res, senders>>
           ELSE /\ ThreadEnd("err_init_recv")
                /\ UNCHANGED <<available_devices, list_state>>
    /\ UNCHANGED <<mainPc, tui_ret, raw_mode, bracketed_paste, sane_recv,
                   queue, handler, sane_handler_res, sane_devices,
                   active_device, last_action,
                   last_event>>
    /\ UNCHANGED cliVars

\* Faulty variant: the component is initialised again after the screen is
\* cleared.
UiClearReinit ==
    /\ uiPc = "clear"
    /\ \E ok \in BOOLEAN :
        IF ok
        THEN /\ uiPc' = "init_send"
             /\ UNCHANGED <<run_res, senders>>
        ELSE ThreadEnd("err_clear")
    /\ UNCHANGED <<mainPc, tui_ret, raw_mode, bracketed_paste, sane_recv,
                   queue, resp, handler, sane_handler_res, sane_devices,
                   active_device, available_devices, list_state, last_action,
                   last_event>>
    /\ UNCHANGED cliVars

\* mod.rs 170: terminal.clear()?
UiClear ==
    /\ uiPc = "clear"
    /\ \E ok \in BOOLEAN :
        IF ok
        THEN /\ uiPc' = "draw"
             /\ UNCHANGED <<run_res, senders>>
        ELSE ThreadEnd("err_clear")
    /\ UNCHANGED <<mainPc, tui_ret, raw_mode, bracketed_paste, sane_recv,
                   queue, resp, handler, sane_handler_res, sane_devices,
                   active_device, available_devices, list_state, last_action,
                   last_event>>
    /\ UNCHANGED cliVars

\* mod.rs 172-186: terminal.draw(|frame| app.draw(frame))?.  The backend may
\* fail, and rendering code may panic; App::draw itself only returns Ok.  The
\* terminal's size at the time decides whether the list has any area.
UiDraw ==
    /\ uiPc = "draw"
    /\ \E o \in {"ok", "err_draw", "panic"}, areaEmpty \in BOOLEAN :
        IF o = "ok"
        THEN /\ list_state' = AppDraw(active_device, available_devices,
                                      list_state, areaEmpty)
             /\ uiPc' = "poll"
             /\ UNCHANGED <<run_res, senders>>
        ELSE /\ ThreadEnd(o)
             /\ UNCHANGED list_state
    /\ UNCHANGED <<mainPc, tui_ret, raw_mode, bracketed_paste, sane_recv,
                   queue, resp, handler, sane_handler_res, sane_devices,
                   active_device, available_devices, last_action,
                   last_event>>
    /\ UNCHANGED cliVars

\* The cursor moves that are explored: Down up to MaxCursor (and on the
\* saturated usize::MAX), Up from no further than MaxCursor.
CursorFollowed(sel, ev) ==
    IF ~IsSome(sel) \/ ev \notin {"Up", "Down"} THEN TRUE
    ELSE IF ev = "Up" THEN Unwrap(sel) <= MaxCursor
    ELSE Unwrap(sel) < MaxCursor \/ Unwrap(sel) = UsizeMax

\* mod.rs 188-199: event::poll(100ms)?, event::read()?, handle_event, and the
\* match that breaks on Quit.
UiPoll ==
    /\ uiPc = "poll"
    /\ \E o \in {"err_poll", "timeout", "err_read"} \cup Events :
        CASE o \in {"err_poll", "err_read"} ->
                /\ ThreadEnd(o)
                /\ last_event' = None
                /\ UNCHANGED <<active_device, list_state, last_action>>
          [] o = "timeout" ->
                /\ uiPc' = "draw"
                /\ last_event' = None
                /\ UNCHANGED <<run_res, senders, active_device, list_state,
                               last_action>>
          [] OTHER ->
                LET r == RunDispatchEvent(active_device, available_devices,
                                          list_state, o) IN
                /\ CursorFollowed(list_state, o)
                /\ last_event' = Some(o)
                /\ active_device' = r.active_device
                /\ list_state' = r.list_state
                /\ last_action' = Some(r.action)
                /\ IF r.action.tag = "Quit"
                   THEN ThreadEnd("ok")
                   ELSE /\ uiPc' = "draw"
                        /\ UNCHANGED <<run_res, senders>>
    /\ UNCHANGED <<mainPc, tui_ret, raw_mode, bracketed_paste, sane_recv,
                   queue, resp, handler, sane_handler_res, sane_devices,
                   available_devices>>
    /\ UNCHANGED cliVars

MainNext ==
    \/ TuiNew
    \/ EnableRawMode
    \/ EnableBracketedPaste
    \/ Spawn
    \/ HandlerRecv
    \/ HandlerService
    \/ Join
    \/ DisableBracketedPaste
    \/ DisableRawMode
    \/ MatchResult

UiNext ==
    \/ UiInitSend
    \/ UiInitRecv
    \/ UiClear
    \/ UiDraw
    \/ UiPoll

NextTui == MainNext \/ UiNext

\* The interactive mode, with no assumption on scheduling.
SpecTui == InitTui /\ [][NextTui]_vars

\* The interactive mode with both threads scheduled: a thread that can take a
\* step eventually takes one.
FairSpecTui ==
    InitTui /\ [][NextTui]_vars /\ WF_vars(MainNext) /\ WF_vars(UiNext)

\* ========================================================= batch commands

InitCli ==
    /\ TuiIdle
    /\ CliStart
    /\ argv \in ArgvSet

\* Faulty variant: the error is recorded and the command carries on.
ExitContinue(r, e) ==
    /\ pc' = pc
    /\ result' = r
    /\ err' = e

\* The process ends: with "ok", with an error, or with a panic.
Exit(r, e) ==
    /\ pc' = "exit"
    /\ result' = r
    /\ err' = e

IsScan == argv.command = "scan"

\* main.rs 94, cli.rs 31-34 and 43-48: Cli::parse runs split_options on every
\* --options token and ends the process on the first that fails.
Parse ==
    /\ pc = "parse"
    /\ IF \E i \in 1..Len(argv.tokens) : ~IsSome(split_options(argv.tokens[i]))
       THEN /\ Exit("InvalidOption", None)
            /\ UNCHANGED args_options
       ELSE /\ args_options' =
                  [i \in 1..Len(argv.tokens) |->
                      Unwrap(split_options(argv.tokens[i]))]
            /\ pc' = "init"
            /\ UNCHANGED <<result, err>>
    /\ UNCHANGED <<argv, options, sane_init, enumerations, devices,
                   open_calls, file_opened, dev_options, set_calls, get_calls,
                   device_values, params, data_len, img, encoded>>
    /\ UNCHANGED tuiVars

\* main.rs 96: Sane::init_1_0()?
SaneInit ==
    /\ pc = "init"
    /\ \E ok \in BOOLEAN :
        IF ok
        THEN /\ sane_init' = TRUE
             /\ pc' = "get_devices"
             /\ UNCHANGED <<result, err>>
        ELSE /\ Exit("err_sane_init", None)
             /\ UNCHANGED sane_init
    /\ UNCHANGED <<argv, args_options, options, enumerations, devices,
                   open_calls, file_opened, dev_options, set_calls, get_calls,
                   device_values, params, data_len, img, encoded>>
    /\ UNCHANGED tuiVars

\* scan.rs 19-21, options.rs 12-14: sane.get_devices()?
GetDevices ==
    /\ pc = "get_devices"
    /\ enumerations' = enumerations + 1
    /\ \E ok \in BOOLEAN :
        IF ok
        THEN /\ devices' \in DeviceLists
             /\ pc' = "find"
             /\ UNCHANGED <<result, err>>
        ELSE /\ Exit("err_get_devices", None)
             /\ UNCHANGED devices
    /\ UNCHANGED <<argv, args_options, options, sane_init, open_calls,
                   file_opened, dev_options, set_calls, get_calls,
                   device_values, params, data_len, img, encoded>>
    /\ UNCHANGED tuiVars

\* Faulty variant: scan creates the destination before it looks the device
\* up.
FindAndOpenCreatingFile ==
    /\ pc = "find"
    /\ devices' = <<>>
    /\ LET i == FindFirstMatch(devices, argv.name) IN
        IF i = 0
        THEN /\ Exit("CouldNotFindScanner", Some([name |-> argv.name]))
             /\ UNCHANGED open_calls
        ELSE /\ open_calls' = Append(open_calls, i)
             /\ \E ok \in BOOLEAN :
                 IF ok
                 THEN /\ pc' = IF IsScan THEN "create_file" ELSE "get_options"
                      /\ UNCHANGED <<result, err>>
                 ELSE Exit("err_open", Some([name |-> argv.name]))
    /\ file_opened' = IsScan
    /\ UNCHANGED <<argv, args_options, options, sane_init, enumerations,
                   dev_options, set_calls, get_calls, device_values, params,
                   data_len, img, encoded>>
    /\ UNCHANGED tuiVars

\* scan.rs 22-30, options.rs 15-23: find_map opens the first descriptor whose
\* name matches (and only that one); the Vec is consumed.
FindAndOpen ==
    /\ pc = "find"
    /\ devices' = <<>>
    /\ LET i == FindFirstMatch(devices, argv.name) IN
        IF i = 0
        THEN /\ Exit("CouldNotFindScanner", Some([name |-> argv.name]))
             /\ UNCHANGED open_calls
        ELSE /\ open_calls' = Append(open_calls, i)
             /\ \E ok \in BOOLEAN :
                 IF ok
                 THEN /\ pc' = IF IsScan THEN "create_file" ELSE "get_options"
                      /\ UNCHANGED <<result, err>>
                 ELSE Exit("err_open", Some([name |-> argv.name]))
    /\ UNCHANGED <<argv, args_options, options, sane_init, enumerations,
                   file_opened, dev_options, set_calls, get_calls,
                   device_values, params, data_len, img, encoded>>
    /\ UNCHANGED tuiVars

\* scan.rs 31-38: the destination is opened (write, truncate, create), then
\* the options are collected into a HashMap.
CreateFile ==
    /\ pc = "create_file"
    /\ \E ok \in BOOLEAN :
        IF ok
        THEN /\ file_opened' = TRUE
             /\ options' = Collect(args_options)
             /\ pc' = "get_options"
             /\ UNCHANGED <<result, err>>
        ELSE /\ Exit("err_open_file", None)
             /\ UNCHANGED <<file_opened, options>>
    /\ UNCHANGED <<argv, args_options, sane_init, enumerations, devices,
                   open_calls, dev_options, set_calls, get_calls,
                   device_values, params, data_len, img, encoded>>
    /\ UNCHANGED tuiVars

\* scan.rs 39, options.rs 26 and 44: device.get_options()?
GetOptions ==
    /\ pc = "get_options"
    /\ \E ok \in BOOLEAN :
        IF ok
        THEN /\ dev_options' \in OptionLists
             /\ pc' = IF IsScan THEN "negotiate" ELSE argv.sub
             /\ UNCHANGED <<result, err>>
        ELSE /\ Exit("err_get_options", None)
             /\ UNCHANGED dev_options
    /\ UNCHANGED <<argv, args_options, options, sane_init, enumerations,
                   devices, open_calls, file_opened, set_calls, get_calls,
                   device_values, params, data_len, img, encoded>>
    /\ UNCHANGED tuiVars

\* scan.rs 39-57: one iteration of the loop over the device's options.
Negotiate ==
    /\ pc = "negotiate"
    /\ dev_options # <<>>
    /\ dev_options' = Tail(dev_options)
    /\ LET opt == Head(dev_options)
           val == MapGet(options, opt.name)
       IN IF ~IsSome(val)
          THEN UNCHANGED <<pc, result, err, set_calls, device_values>>
          ELSE LET c == ConvertValue(opt.type_, Unwrap(val)) IN
               CASE c.tag = "skip" ->
                       UNCHANGED <<pc, result, err, set_calls, device_values>>
                 [] c.tag = "invalid" ->
                       /\ Exit(c.error, Some([option |-> opt.name]))
                       /\ UNCHANGED <<set_calls, device_values>>
                 [] OTHER ->
                       /\ set_calls' = Append(set_calls, <<opt.name, c.value>>)
                       /\ \E ok \in BOOLEAN :
                           IF ok
                           THEN /\ device_values' =
                                     [device_values EXCEPT
                                         ![opt.name] = c.value]
                                /\ UNCHANGED <<pc, result, err>>
                           ELSE /\ Exit("err_set_option", None)
                                /\ UNCHANGED device_values
    /\ UNCHANGED <<argv, args_options, options, sane_init, enumerations,
                   devices, open_calls, file_opened, get_calls, params,
                   data_len, img, encoded>>
    /\ UNCHANGED tuiVars

\* scan.rs 58: device.start_scan()?, once the loop is over.
StartScan ==
    /\ pc = "negotiate"
    /\ dev_options = <<>>
    /\ \E ok \in BOOLEAN :
        IF ok
        THEN /\ params' \in {Some(q) : q \in ParamSets}
             /\ pc' = "read"
             /\ UNCHANGED <<result, err>>
        ELSE /\ Exit("err_start_scan", None)
             /\ UNCHANGED params
    /\ UNCHANGED <<argv, args_options, options, sane_init, enumerations,
                   devices, open_calls, file_opened, dev_options, set_calls,
                   get_calls, device_values, data_len, img, encoded>>
    /\ UNCHANGED tuiVars

\* scan.rs 59-60: device.read_to_vec()?
ReadToVec ==
    /\ pc = "read"
    /\ \E ok \in BOOLEAN :
        IF ok
        THEN /\ data_len' \in {Some(n) : n \in 0..MaxBuf}
             /\ pc' = "reconstruct"
             /\ UNCHANGED <<result, err>>
        ELSE /\ Exit("err_read", None)
             /\ UNCHANGED data_len
    /\ UNCHANGED <<argv, args_options, options, sane_init, enumerations,
                   devices, open_calls, file_opened, dev_options, set_calls,
                   get_calls, device_values, params, img, encoded>>
    /\ UNCHANGED tuiVars

\* scan.rs 61-85: the image is built from the buffer by frame format.
Reconstruct ==
    /\ pc = "reconstruct"
    /\ LET q == Unwrap(params)
           n == Unwrap(data_len)
       IN IF Unimplemented(q.format)
          THEN /\ Exit("panic_todo", None)
               /\ UNCHANGED img
          ELSE IF FromRaw(q.pixels_per_line, q.lines, Channels(q.format), n)
          THEN /\ img' = Some([width |-> q.pixels_per_line,
                               height |-> q.lines,
                               channels |-> Channels(q.format)])
               /\ pc' = "encode"
               /\ UNCHANGED <<result, err>>
          ELSE /\ Exit("InvalidImageSize",
                       Some([width |-> q.pixels_per_line, height |-> q.lines,
                             buffer_size |-> n, pixel_size |-> q.depth]))
               /\ UNCHANGED img
    /\ UNCHANGED <<argv, args_options, options, sane_init, enumerations,
                   devices, open_calls, file_opened, dev_options, set_calls,
                   get_calls, device_values, params, data_len, encoded>>
    /\ UNCHANGED tuiVars

\* scan.rs 86-88: JpegEncoder::new(file).encode_image(&img)?
Encode ==
    /\ pc = "encode"
    /\ \E ok \in BOOLEAN :
        IF ok
        THEN /\ encoded' = TRUE
             /\ Exit("ok", None)
        ELSE /\ Exit("err_encode", None)
             /\ UNCHANGED encoded
    /\ UNCHANGED <<argv, args_options, options, sane_init, enumerations,
                   devices, open_calls, file_opened, dev_options, set_calls,
                   get_calls, device_values, params, data_len, img>>
    /\ UNCHANGED tuiVars

\* options.rs 25-42: every option is printed; nothing is read from the device.
OptionsList ==
    /\ pc = "list"
    /\ dev_options' = <<>>
    /\ Exit("ok", None)
    /\ UNCHANGED <<argv, args_options, options, sane_init, enumerations,
                   devices, open_calls, file_opened, set_calls, get_calls,
                   device_values, params, data_len, img, encoded>>
    /\ UNCHANGED tuiVars

\* options.rs 43-63: the option is looked up by name, then read and printed.
OptionsShow ==
    /\ pc = "show"
    /\ dev_options' = <<>>
    /\ LET i == FindOption(dev_options, argv.option) IN
        IF i = 0
        THEN /\ Exit("OptionNotFound",
                     Some([name |-> argv.name, option |-> argv.option]))
             /\ UNCHANGED get_calls
        ELSE /\ get_calls' = Append(get_calls, dev_options[i].name)
             /\ \E ok \in BOOLEAN :
                 IF ok THEN Exit("ok", None)
                 ELSE Exit("err_get_option",
                           Some([name |-> argv.name, option |-> argv.option]))
    /\ UNCHANGED <<argv, args_options, options, sane_init, enumerations,
                   devices, open_calls, file_opened, set_calls, device_values,
                   params, data_len, img, encoded>>
    /\ UNCHANGED tuiVars

NextCli ==
    \/ Parse
    \/ SaneInit
    \/ GetDevices
    \/ FindAndOpen
    \/ CreateFile
    \/ GetOptions
    \/ Negotiate
    \/ StartScan
    \/ ReadToVec
    \/ Reconstruct
    \/ Encode
    \/ OptionsList
    \/ OptionsShow

\* The batch commands scan and options, from the command line to exit.
SpecCli == InitCli /\ [][NextCli]_vars

\* ========================================== properties: interactive mode

\* The results with which Tui::run can fail.
RunErrors == {"err_init_send", "err_init_recv", "err_clear", "err_draw",
              "err_poll", "err_read"}

\* C1: when the Interaction Loop ended with a failure, tui() does not return
\* success, and once the terminal has been restored what it returns is the
\* loop's failure.
C1_LoopFailureReported ==
    (mainPc = "returned" /\ run_res \in RunErrors) =>
        /\ tui_ret # "ok"
        /\ (~raw_mode /\ ~bracketed_paste) => tui_ret = run_res

\* C2: whenever tui() has returned (or re-raised a panic), neither raw mode
\* nor bracketed paste is still enabled.
C2_TerminalRestoredOnExit ==
    mainPc = "returned" => (~raw_mode /\ ~bracketed_paste)

\* C4: a list-devices wait whose responder was dropped without a response
\* (the dispatch side stopped) resolves to a failure that init propagates out
\* of Tui::run; the Interaction Loop does not stay blocked on it.
C4_DroppedResponderFailsInit ==
    /\ (uiPc = "init_recv" /\ resp.sender = "dropped" /\ ~IsSome(resp.msg))
          ~> (uiPc = "done" /\ run_res = "err_init_recv")
    /\ [](sane_handler_res = "err_get_devices"
            => uiPc \in {"init_recv", "done"}
               /\ run_res \in {"none", "err_init_recv"})

C4_Witness ==
    /\ sane_handler_res = "err_get_devices"
    /\ uiPc = "done"
    /\ run_res = "err_init_recv"

\* C5: once the Interaction Loop thread has ended, no Sender of the request
\* channel is left, the dispatch loop ends and tui() gets past the join and
\* returns; once the dispatch loop has ended the Interaction Loop does not
\* stay blocked in init; and until tui() has returned some step is possible.
C5_TeardownPropagates ==
    /\ [](uiPc = "done" => senders = 0)
    /\ (uiPc = "done") ~> (handler = "Done" /\ mainPc = "returned")
    /\ (handler = "Done") ~> (uiPc \notin {"init_send", "init_recv"})
    /\ [](mainPc # "returned" => ENABLED NextTui)

C5_Witness ==
    /\ run_res = "ok"
    /\ uiPc = "done"
    /\ handler = "Done"
    /\ sane_handler_res = "ok"
    /\ mainPc = "returned"

\* C6 as stated: the dispatch loop ends only cleanly, with success.
C6_DispatchEndsOnlyWithSuccess ==
    handler = "Done" => sane_handler_res = "ok"

\* C6 amended: the dispatch loop alternates Idle -> Servicing -> Idle and
\* leaves the cycle only (a) from Idle when the request channel is closed and
\* empty, with success, (b) from Servicing when the response cannot be
\* delivered, with success, or (c) from Servicing when device enumeration
\* fails, with that error; once ended it stays ended.
C6_DispatchCycle ==
    [][ /\ (handler = "Idle" /\ handler' # "Idle") =>
              \/ handler' = "Servicing" /\ queue # <<>>
              \/ /\ handler' = "Done"
                 /\ senders = 0
                 /\ queue = <<>>
                 /\ sane_handler_res' = "ok"
        /\ (handler = "Servicing" /\ handler' # "Servicing") =>
              \/ handler' = "Idle" /\ resp'.msg = Some(sane_devices)
              \/ /\ handler' = "Done"
                 /\ sane_handler_res' = "ok"
                 /\ resp.receiver # "alive"
              \/ handler' = "Done" /\ sane_handler_res' = "err_get_devices"
        /\ handler = "Done" => handler' = "Done" ]_vars

C6_Witness ==
    /\ handler = "Done"
    /\ sane_handler_res = "ok"
    /\ IsSome(available_devices)

\* C11: pressing Down while the cursor is on the last item leaves the cursor
\* on the last item: when the picker is drawn after a Down that took the
\* cursor one past the end of a non-empty list, the cursor is back on the last
\* item; and Enter on an empty device list yields Noop and sets no device.
C11_DownAtLastItemStays ==
    [][/\ (/\ uiPc = "draw"
           /\ uiPc' = "poll"
           /\ last_event = Some("Down")
           /\ ~IsSome(active_device)
           /\ IsSome(available_devices)
           /\ Len(Unwrap(available_devices)) >= 1
           /\ list_state = Some(Len(Unwrap(available_devices))))
          => list_state' = Some(Len(Unwrap(available_devices)) - 1)
       /\ (/\ uiPc = "poll"
           /\ last_event' = Some("Enter")
           /\ available_devices = Some(<<>>))
          => /\ last_action' = Some(Noop)
             /\ active_device' = None]_vars

\* C12: a run starts with no active device; once the active device holds a
\* name, no step changes or clears it, and no step (event or draw) changes the
\* picker's cursor or its device list.
C12_ActiveDeviceSetOnce ==
    /\ [](uiPc \in {"not_started", "init_send", "init_recv", "clear"}
             => active_device = None)
    /\ [][IsSome(active_device) =>
             /\ active_device' = active_device
             /\ list_state' = list_state
             /\ available_devices' = available_devices]_vars

\* A Down key has been read after the device was chosen, and the next draw is
\* done.
C12_Witness ==
    /\ IsSome(active_device)
    /\ last_event = Some("Down")
    /\ uiPc = "poll"

\* C16: a panic on the Interaction Loop thread is not swallowed: when tui()
\* is over after the loop panicked, it ended by re-raising that panic, with
\* the dispatch loop ended and both terminal modes restored; it never
\* returned a value.
C16_PanicReRaised ==
    (run_res = "panic" /\ mainPc = "returned") =>
        /\ tui_ret = "panic"
        /\ handler = "Done"
        /\ ~raw_mode
        /\ ~bracketed_paste

\* C17: an Esc key press yields Quit in every UI state, device chosen or not,
\* without changing the cursor or the active device; the loop then ends with
\* success in that iteration, and nothing is drawn or polled afterwards.
C17_EscQuits ==
    /\ [][(uiPc = "poll" /\ last_event' = Some("EscPress")) =>
             /\ last_action' = Some(Quit)
             /\ list_state' = list_state
             /\ active_device' = active_device
             /\ uiPc' = "done"
             /\ run_res' = "ok"]_vars
    /\ [](last_action = Some(Quit) => uiPc = "done" /\ run_res = "ok")
    /\ [][uiPc = "done" =>
             /\ uiPc' = "done"
             /\ list_state' = list_state
             /\ last_event' = last_event
             /\ last_action' = last_action]_vars

\* Esc was pressed after a device had been chosen, and the loop is over.
C17_Witness ==
    /\ last_event = Some("EscPress")
    /\ IsSome(active_device)
    /\ uiPc = "done"
    /\ run_res = "ok"

\* C18: while no device is active, Enter with a device highlighted makes the
\* name of the device at the cursor, in the list obtained at init, the active
\* device (as text: a name that is not valid UTF-8 is taken in its lossy
\* rendering), and the loop sees Noop, never SetActiveDevice; an input other
\* than Esc, Up, Down and Enter changes neither the cursor nor the active
\* device.
C18_EnterSelectsHighlighted ==
    /\ [](IsSome(available_devices) => available_devices = Some(sane_devices))
    /\ [](IsSome(last_action) => Unwrap(last_action).tag \in {"Quit", "Noop"})
    /\ [][(/\ uiPc = "poll"
           /\ last_event' = Some("Enter")
           /\ ~IsSome(active_device)
           /\ IsSome(list_state)
           /\ Unwrap(list_state) < Len(sane_devices)) =>
             /\ active_device' =
                   Some(ToStringLossy(sane_devices[Unwrap(list_state) + 1]))
             /\ last_action' = Some(Noop)
             /\ list_state' = list_state
             /\ uiPc' = "draw"]_vars
    /\ [][(/\ uiPc = "poll"
           /\ IsSome(last_event')
           /\ Unwrap(last_event') \in {"OtherKey", "Resize", "Other"}) =>
             /\ list_state' = list_state
             /\ active_device' = active_device
             /\ last_action' = Some(Noop)]_vars

\* The second of two different devices was highlighted when Enter was pressed.
C18_Witness ==
    /\ last_event = Some("Enter")
    /\ sane_devices = <<"d1", "d2">>
    /\ list_state = Some(1)
    /\ active_device = Some("d2")
    /\ last_action = Some(Noop)

\* Requests sent and not yet answered.
Outstanding == Len(queue) + (IF handler = "Servicing" THEN 1 ELSE 0)

\* C19: the Interaction Loop sends a request, and waits for the answer, only
\* in init: a request is sent only by the init step, which runs once, before
\* the first draw; at most one request is outstanding; once init has returned
\* the request has been answered, none is sent, and the loop can always take
\* its next step without the dispatch side.
C19_RequestOnlyInInit ==
    /\ [][Len(queue') > Len(queue) =>
             /\ uiPc = "init_send"
             /\ uiPc' = "init_recv"
             /\ queue' = Append(queue, "ListDevices")]_vars
    /\ [][uiPc' = "init_send" => uiPc \in {"not_started", "init_send"}]_vars
    /\ [](Outstanding <= 1)
    /\ [](uiPc \in {"clear", "draw", "poll"} =>
             /\ Outstanding = 0
             /\ resp.receiver = "dropped"
             /\ available_devices = Some(sane_devices)
             /\ ENABLED UiNext)

\* The loop handles input while the dispatch loop sits idle.
C19_Witness ==
    /\ uiPc = "draw"
    /\ last_event = Some("Down")
    /\ handler = "Idle"
    /\ queue = <<>>

\* C21: Up and Down keep the cursor within the list: whenever the loop is
\* about to read an input event, the device list being known, the cursor is
\* absent or an index strictly below the number of listed devices.
C21_CursorValidWhenHandling ==
    (uiPc = "poll" /\ IsSome(available_devices)) =>
        \/ ~IsSome(list_state)
        \/ Unwrap(list_state) < Len(Unwrap(available_devices))

\* C24: right after a successful init nothing is highlighted, whatever the
\* length of the device list; only an Up or a Down gives the picker a cursor,
\* so that an Enter pressed before any of them yields Noop and leaves the
\* active device absent.
C24_NothingHighlightedAfterInit ==
    /\ [](uiPc = "clear" =>
             IsSome(available_devices) /\ ~IsSome(list_state))
    /\ [](IsSome(active_device) => IsSome(list_state))
    /\ [][(~IsSome(list_state) /\ IsSome(list_state')) =>
             /\ uiPc = "poll"
             /\ last_event' \in {Some("Up"), Some("Down")}]_vars
    /\ [][(uiPc = "poll" /\ last_event' = Some("Enter")
              /\ ~IsSome(list_state)) =>
             /\ last_action' = Some(Noop)
             /\ active_device' = None]_vars

\* Enter was the first key pressed, with two devices listed.
C24_Witness ==
    /\ last_event = Some("Enter")
    /\ Len(sane_devices) = 2
    /\ available_devices = Some(sane_devices)
    /\ ~IsSome(list_state)
    /\ last_action = Some(Noop)
    /\ ~IsSome(active_device)
    /\ uiPc = "draw"

\* ============================================ properties: batch commands

\* C3: for a monochrome or RGB frame, reconstruction succeeds exactly when
\* the buffer length is width x height x k; for every other length the scan
\* ends with InvalidImageSize carrying width, height, buffer length and
\* declared depth, and nothing is encoded.
C3_ExactLengthOrInvalidImageSize ==
    (/\ IsSome(params)
     /\ IsSome(data_len)
     /\ pc \in {"encode", "exit"}
     /\ Unwrap(params).format \in {"Gray", "Rgb"}) =>
        LET q == Unwrap(params)
            n == Unwrap(data_len)
        IN IF n = q.pixels_per_line * q.lines
                    * (IF q.format = "Gray" THEN 1 ELSE 3)
           THEN IsSome(img) /\ result # "InvalidImageSize"
           ELSE /\ result = "InvalidImageSize"
                /\ err = Some([width |-> q.pixels_per_line,
                               height |-> q.lines,
                               buffer_size |-> n,
                               pixel_size |-> q.depth])
                /\ img = None
                /\ ~encoded

\* The indices of the caller's entries for key k, and the last of them.
EntriesFor(k) == {j \in 1..Len(args_options) : args_options[j][1] = k}
LastEntryFor(k) ==
    CHOOSE j \in EntriesFor(k) : \A j2 \in EntriesFor(k) : j2 <= j

\* C7: every set-option call made during scan carries the value of the last
\* entry for its key in the caller's sequence, and no key is set twice;
\* when the loop visits a settable (integer or string) option whose key was
\* given and whose last value is valid for its kind, exactly that one call
\* is made, whatever the order of the device's options.
C7_LastWriteWins ==
    /\ [](\A c \in 1..Len(set_calls) :
            LET k == set_calls[c][1] IN
            /\ EntriesFor(k) # {}
            /\ \E t \in {"Int", "String"} :
                 ConvertValue(t, args_options[LastEntryFor(k)][2]) =
                     [tag |-> "set", value |-> set_calls[c][2],
                      error |-> ""]
            /\ \A c2 \in 1..Len(set_calls) :
                 c2 # c => set_calls[c2][1] # k)
    /\ [][(pc = "negotiate" /\ dev_options # <<>>) =>
            LET opt == Head(dev_options)
                k == opt.name
            IN (/\ EntriesFor(k) # {}
                /\ opt.type_ \in {"Int", "String"}
                /\ ConvertValue(opt.type_,
                       args_options[LastEntryFor(k)][2]).tag = "set")
               => set_calls' = Append(set_calls,
                     <<k, ConvertValue(opt.type_,
                            args_options[LastEntryFor(k)][2]).value>>)]_vars

\* A key was given twice with different values, and its option has been set
\* (to the later one).
C7_Witness ==
    \E i, j \in 1..Len(args_options) :
        /\ i < j
        /\ args_options[i][1] = args_options[j][1]
        /\ args_options[i][2] # args_options[j][2]
        /\ \E c \in 1..Len(set_calls) :
             /\ set_calls[c][1] = args_options[j][1]
             /\ set_calls[c][2] = IntValue(2)
        /\ pc = "read"

\* C8: in scan and in options alike, the lookup of a name that equals no
\* enumerated descriptor's name ends with CouldNotFindScanner{name} and opens
\* nothing; otherwise exactly the first descriptor with that name is opened.
C8_FirstMatchOpened ==
    /\ [][pc = "find" =>
            LET M == {i \in 1..Len(devices) : devices[i] = argv.name} IN
            IF M = {}
            THEN /\ result' = "CouldNotFindScanner"
                 /\ err' = Some([name |-> argv.name])
                 /\ open_calls' = <<>>
            ELSE /\ result' # "CouldNotFindScanner"
                 /\ \E i \in M :
                      /\ \A j \in M : i <= j
                      /\ open_calls' = <<i>>]_vars
    /\ [][pc # "find" => open_calls' = open_calls]_vars
    /\ [](result = "CouldNotFindScanner" =>
            open_calls = <<>> /\ err = Some([name |-> argv.name]))

\* The second descriptor was opened: the first did not carry the name.
C8_Witness ==
    /\ open_calls = <<2>>
    /\ argv.command = "options"
    /\ pc = "get_options"

\* C9: `options show` with a name that no option of the opened device
\* carries ends with OptionNotFound{name, option}, makes no get-option or
\* set-option call and leaves the device's option values as they were.
C9_ShowUnknownOption ==
    /\ [][pc = "show" =>
            ((\A i \in 1..Len(dev_options) :
                 dev_options[i].name # argv.option)
             => /\ result' = "OptionNotFound"
                /\ err' = Some([name |-> argv.name, option |-> argv.option])
                /\ get_calls' = <<>>
                /\ set_calls' = <<>>
                /\ device_values' = device_values)]_vars
    /\ [](result = "OptionNotFound" =>
            /\ Len(open_calls) = 1
            /\ get_calls = <<>>
            /\ set_calls = <<>>
            /\ device_values = DefaultValues)

C9_Witness ==
    /\ result = "OptionNotFound"
    /\ argv.option = <<"c">>
    /\ Len(open_calls) = 1

HasEq(t) == \E i \in 1..Len(t) : t[i] = "="

RECURSIVE WithoutSpaces(_)
WithoutSpaces(t) ==
    IF t = <<>> THEN <<>>
    ELSE IF t[1] = " " THEN WithoutSpaces(Tail(t))
    ELSE <<t[1]>> \o WithoutSpaces(Tail(t))

IsTrimmed(t) == t = <<>> \/ (t[1] # " " /\ t[Len(t)] # " ")

\* kv is token t split at its first '=' into trimmed key and trimmed value.
SplitsAtFirstEq(t, kv) ==
    /\ ~HasEq(kv[1])
    /\ IsTrimmed(kv[1])
    /\ IsTrimmed(kv[2])
    /\ WithoutSpaces(t) = WithoutSpaces(kv[1]) \o <<"=">> \o WithoutSpaces(kv[2])

\* C10: a scan command line with an --options token that has no '=' ends
\* with InvalidOption in argument parsing, before the capability source is
\* initialised and before any enumeration, open or file creation; otherwise
\* every token is split at its first '=' into (trimmed key, trimmed value).
C10_MalformedTokenFailsInParsing ==
    /\ (\E i \in 1..Len(argv.tokens) : ~HasEq(argv.tokens[i])) =>
          /\ pc \in {"parse", "exit"}
          /\ pc = "exit" => result = "InvalidOption"
    /\ result = "InvalidOption" =>
          /\ \E i \in 1..Len(argv.tokens) : ~HasEq(argv.tokens[i])
          /\ ~sane_init
          /\ enumerations = 0
          /\ open_calls = <<>>
          /\ ~file_opened
    /\ (pc # "parse" /\ result # "InvalidOption") =>
          /\ Len(args_options) = Len(argv.tokens)
          /\ \A i \in 1..Len(argv.tokens) :
               SplitsAtFirstEq(argv.tokens[i], args_options[i])

\* A command line with a well-formed token before the malformed one.
C10_Witness ==
    /\ result = "InvalidOption"
    /\ Len(argv.tokens) = 2
    /\ HasEq(argv.tokens[1])
    /\ ~HasEq(argv.tokens[2])

\* C13: scan runs its stages in the order open session, apply options, start
\* acquisition, read the buffer, reconstruct, open the destination, encode:
\* an operation of a stage has been performed only if every earlier stage was
\* completed, so a stage that fails leaves every later operation undone.
C13_StagesInOrder ==
    IsScan =>
        /\ set_calls # <<>> => open_calls # <<>>
        /\ IsSome(params) => open_calls # <<>> /\ dev_options = <<>>
        /\ IsSome(data_len) => IsSome(params)
        /\ IsSome(img) => IsSome(data_len)
        /\ file_opened => IsSome(img)
        /\ encoded => file_opened
        /\ result \in {"ParseIntError", "NulError", "err_set_option",
                       "err_start_scan"}
              => ~IsSome(params) /\ ~file_opened /\ ~encoded
        /\ result \in {"err_read", "InvalidImageSize", "panic_todo"}
              => ~file_opened /\ ~encoded

\* Text that is a base-10 number: an optional sign, then digits only.
IsBase10(t) ==
    LET body == IF t # <<>> /\ t[1] \in {"+", "-"} THEN Tail(t) ELSE t
    IN body # <<>> /\ \A i \in 1..Len(body) : body[i] \in Digits

HasNul(t) == \E i \in 1..Len(t) : t[i] = "NUL"

\* One iteration of the negotiation loop on an option whose key was given:
\* an integer option with text that is no base-10 number ends the scan with
\* intError, a string option with an embedded NUL ends it with nulError, both
\* with no set-option call; an option of any other kind is passed over.
NegotiationStep(intError, nulError) ==
    (pc = "negotiate" /\ dev_options # <<>>
        /\ EntriesFor(Head(dev_options).name) # {}) =>
    LET opt == Head(dev_options)
        val == args_options[LastEntryFor(opt.name)][2]
    IN /\ (opt.type_ = "Int" /\ ~IsBase10(val)) =>
             /\ pc' = "exit"
             /\ result' = intError
             /\ set_calls' = set_calls
       /\ (opt.type_ = "String" /\ HasNul(val)) =>
             /\ pc' = "exit"
             /\ result' = nulError
             /\ set_calls' = set_calls
       /\ opt.type_ \notin {"Int", "String"} =>
             /\ pc' = "negotiate"
             /\ result' = "none"
             /\ set_calls' = set_calls

\* C14 as stated: both conversion failures end the scan with InvalidValue.
C14_InvalidValueBeforeAcquisition ==
    /\ [][NegotiationStep("InvalidValue", "InvalidValue")]_vars
    /\ [](result = "InvalidValue" => ~IsSome(params))

\* C14, amended: a matching integer option whose text is not a base-10 number
\* ends the scan with the integer parse error, and a matching string option
\* whose text holds a NUL with the NUL error, in both cases before acquisition
\* starts; a matching option of any other kind is skipped with no error and
\* no set-option call.
C14_ConversionErrorBeforeAcquisition ==
    /\ [][NegotiationStep("ParseIntError", "NulError")]_vars
    /\ [](result \in {"ParseIntError", "NulError"} =>
             /\ ~IsSome(params)
             /\ ~IsSome(data_len)
             /\ ~encoded)

\* One option was set, then a string option was given text with a NUL.
C14_Witness ==
    /\ result = "NulError"
    /\ Len(set_calls) = 1
    /\ \E j \in 1..Len(args_options) : HasNul(args_options[j][2])

\* Keys of the Option Assignment that none of the device's options has.
UnknownKeys == MapKeys(options) \ OptionNames

\* C15: an entry whose key matches no option of the device causes no error
\* and no set-option call: no call and no conversion error is ever about such
\* a key, and each step of the negotiation is decided by the entries given
\* under the name of the option it visits, to the exclusion of every other
\* entry; with no such entry the step does nothing.
C15_UnknownKeysIgnored ==
    /\ [](\A c \in 1..Len(set_calls) : set_calls[c][1] \notin UnknownKeys)
    /\ [](result \in {"ParseIntError", "NulError"} =>
             Unwrap(err).option \notin UnknownKeys)
    /\ [][(pc = "negotiate" /\ dev_options # <<>>) =>
            LET opt == Head(dev_options) IN
            /\ set_calls' # set_calls =>
                  /\ EntriesFor(opt.name) # {}
                  /\ Len(set_calls') = Len(set_calls) + 1
                  /\ set_calls'[Len(set_calls')][1] = opt.name
            /\ result' \in {"ParseIntError", "NulError"} =>
                  /\ EntriesFor(opt.name) # {}
                  /\ Unwrap(err').option = opt.name
            /\ EntriesFor(opt.name) = {} =>
                  /\ pc' = "negotiate"
                  /\ result' = "none"
                  /\ set_calls' = set_calls
                  /\ device_values' = device_values]_vars

\* Acquisition has started although a key that no device option has was
\* given, next to a key that was set.
C15_Witness ==
    /\ pc = "read"
    /\ UnknownKeys # {}
    /\ set_calls # <<>>

\* C20: when the device reports a red, green or blue plane, the scan stops
\* with the unimplemented panic once the buffer has been read: no image is
\* built from the buffer as if it had another layout, and the encoder is not
\* invoked.
C20_PlaneLayoutsUnimplemented ==
    /\ (IsSome(params) /\ Unwrap(params).format \in {"Red", "Green", "Blue"})
          => /\ ~IsSome(img)
             /\ ~encoded
             /\ pc # "encode"
             /\ (pc = "exit" /\ IsSome(data_len)) => result = "panic_todo"
    /\ result = "panic_todo"
          => /\ IsSome(params)
             /\ Unwrap(params).format \in {"Red", "Green", "Blue"}

\* A green plane was reported with a buffer long enough for an RGB image of
\* the reported size.
C20_Witness ==
    /\ result = "panic_todo"
    /\ Unwrap(params).format = "Green"
    /\ Unwrap(params).lines = 1
    /\ data_len = Some(6)

\* C22: when scan ends because no descriptor has the name asked for, or
\* because opening the matching device failed, the destination file has been
\* neither created nor truncated; the destination is touched only once a
\* device is open.
C22_NoFileOnLookupFailure ==
    IsScan =>
        /\ result \in {"CouldNotFindScanner", "err_open"} =>
              ~file_opened /\ ~encoded
        /\ file_opened => open_calls # <<>>
        /\ pc \in {"parse", "init", "get_devices", "find"} => ~file_opened

\* Opening the device that has the name asked for failed.
C22_Witness ==
    /\ IsScan
    /\ result = "err_open"
    /\ open_calls # <<>>
    /\ ~file_opened

\* The ways applying the Option Assignment fails.
NegotiationFailures == {"ParseIntError", "NulError", "err_set_option"}

\* C23: when applying the Option Assignment fails at some option, scan is
\* over: no further set-option call is made, acquisition is never started and
\* no samples are read; the options applied before the failure keep the
\* values they were given.
C23_NegotiationFailureStops ==
    /\ [](result \in NegotiationFailures =>
             /\ pc = "exit"
             /\ ~IsSome(params)
             /\ ~IsSome(data_len))
    /\ [][(result \in NegotiationFailures) =>
             /\ set_calls' = set_calls
             /\ device_values' = device_values]_vars
    /\ [][(pc = "negotiate" /\ result' \in NegotiationFailures) =>
             /\ device_values' = device_values
             /\ \A c \in 1..Len(set_calls) :
                  device_values'[set_calls[c][1]] = set_calls[c][2]]_vars

\* Option a was set to 1, then the next option's value did not parse.
C23_Witness ==
    /\ result = "ParseIntError"
    /\ set_calls = << << <<"a">>, IntValue(1) >> >>
    /\ device_values[<<"a">>] = IntValue(1)

=============================================================================
